---- MODULE Spec2Model ----
(***************************************************************************)
(* Verification model of CopilotApp's chat engine:                         *)
(*   - the model catalog cache of src/src/api/copilot.js (fetchModels,     *)
(*     invalidateModelsCache),                                             *)
(*   - the chat orchestration of the Chat component (sendMessage,          *)
(*     handleSend, stopStreaming),                                         *)
(*   - the stream decoder sendChatMessageStream,                           *)
(*   - the quota extractor extractPremiumQuota and the normalization of    *)
(*     the catalog in fetchModels,                                         *)
(*   - the device-flow poller pollForToken of src/src/api/github.js.       *)
(* Each part has its own specifications (SpecCache, SpecChat, SpecDecoder, *)
(* SpecQuota, SpecTier, SpecCatalog, SpecPoll and their variants);         *)
(* the variables of the other parts stay at their initial values.          *)
(***************************************************************************)
EXTENDS Integers, Sequences, FiniteSets, TLC

VARIABLES
    modelCache,        \* _modelCache: the cached list, or NoList for null
    modelCacheTime,    \* _modelCacheTime
    modelCacheToken,   \* _modelCacheToken: credential the cache was built for
    modelCachePromise, \* _modelCachePromise: id of the in-flight fetch, 0 for null
    fetches,           \* every network request of the models endpoint issued so far:
                       \* its credential, its status, whether a later caller shares it
    now,               \* Date.now(), in ms (counted from one TTL before the page load)
    ticks,             \* how many times the clock has advanced
    lastCallCred,      \* credential of the most recent fetchModels call
    sinceInvalidate,   \* no fetchModels call since the last invalidateModelsCache
    last,              \* what the most recent operation of the cache did
    conversations,     \* Chat state: conversation key -> record and its messages
    streaming,         \* Chat state: streaming
    input,             \* Chat state: input
    systemPrompt,      \* Chat state: systemPrompt
    abortControllers,  \* abortControllersRef.current: the registered controllers
    orch,              \* the sendMessage invocations made so far, one record each
    sends,             \* number of accepted handleSend calls
    frames,            \* the frames the server sends before `data: [DONE]`
    trailing,          \* the frames the server sends after `data: [DONE]`
    wire,              \* the part of the response body not read yet
    sink,              \* the deltas passed to onChunk so far
    usage,             \* sendChatMessageStream's usage
    dpc,               \* sendChatMessageStream: reading, returned or threw
    cutLine,           \* a chunk has ended inside a line
    doneSeen,          \* the loop over the lines has met `data: [DONE]` (line 383)
    quotaArgs,         \* the arguments of a call of extractPremiumQuota
    quotaResult,       \* whether that call has returned, and its return value
    rawModels,         \* fetchModels: `models`, the entries of the API response
    published,         \* fetchModels: `available`, once written to _modelCache
                       \* and returned
    poller,            \* a call of pollForToken: its timer, its request, its promise
    result             \* what sendChatMessageStream has returned (line 396)

cacheVars == <<modelCache, modelCacheTime, modelCacheToken, modelCachePromise,
               fetches, now, ticks, lastCallCred, sinceInvalidate, last>>

chatVars == <<conversations, streaming, input, systemPrompt, abortControllers,
              orch, sends>>

decVars == <<frames, trailing, wire, sink, usage, dpc, cutLine, doneSeen, result>>

pureVars == <<quotaArgs, quotaResult, rawModels, published, poller>>

vars == <<cacheVars, chatVars, decVars, pureVars>>

-----------------------------------------------------------------------------
(* Bounds *)
MaxFetches == 2
MaxTicks == 2
MaxSends == 2
MaxDeltas == 1
MaxToolCalls == 2
MaxFrames == 2
MaxEntries == 2
MaxPolls == 3

-----------------------------------------------------------------------------
(* Model catalog cache: src/src/api/copilot.js *)

Null == "null"
Creds == {"A", "B"}

MODEL_CACHE_TTL == 3600000

TickSteps == {1, MODEL_CACHE_TTL - 1}

\* A published list: which credential's request produced it, and which request.
NoList == [owner |-> Null, fetch |-> 0]
ListOf(i) == [owner |-> fetches[i].cred, fetch |-> i]

Pending(i) == i \in DOMAIN fetches /\ fetches[i].status = "pending"
InFlight(c) == {i \in DOMAIN fetches : fetches[i].status = "pending" /\ fetches[i].cred = c}

NoOp(op) ==
    [op |-> op, cred |-> Null, force |-> FALSE, kind |-> "none", fetch |-> 0,
     list |-> NoList, prevCred |-> Null, tokenEq |-> FALSE, slotBefore |-> 0,
     cacheBefore |-> NoList, timeBefore |-> 0, age |-> 0, inFlightSame |-> {},
     afterInvalidate |-> FALSE, shared |-> FALSE]

\* line 80: the token differs from the one the cache was built for
TokenChanged(c) == c /= modelCacheToken

\* A credential change that forgets to drop what the old credential left.
OnTokenChangeKeepsAll ==
    [cache |-> modelCache, time |-> modelCacheTime, promise |-> modelCachePromise]

\* lines 81-83: what a credential change leaves in the cache, timestamp and slot
OnTokenChange == [cache |-> NoList, time |-> 0, promise |-> 0]

\* The TTL test with the boundary on the wrong side.
CacheHitAtTtl(force, cache, time) ==
    ~force /\ cache /= NoList /\ now - time <= MODEL_CACHE_TTL

\* line 88: the cache answers the call
CacheHit(force, cache, time) ==
    ~force /\ cache /= NoList /\ now - time < MODEL_CACHE_TTL

\* A fetch that settles without clearing the slot.
PromiseKeptAfterSettle == modelCachePromise

\* line 175: the finally block of the fetch clears the in-flight slot
PromiseAfterSettle == 0

\* lines 186-189: invalidateModelsCache
InvalidatedCache == NoList
InvalidatedTime == 0
\* An invalidation that leaves the cached credential in place.
InvalidatedTokenKept == modelCacheToken
InvalidatedToken == Null
InvalidatedPromise == 0

\* fetchModels(copilotToken, {forceRefresh}): the synchronous part of the call, up to
\* and including the fetch() that the async function starts (lines 78-101, 179).
FetchModels(c, force) ==
    LET cache1 == IF TokenChanged(c) THEN OnTokenChange.cache ELSE modelCache
        time1 == IF TokenChanged(c) THEN OnTokenChange.time ELSE modelCacheTime
        promise1 == IF TokenChanged(c) THEN OnTokenChange.promise ELSE modelCachePromise
        hit == CacheHit(force, cache1, time1)
        kind == IF hit THEN "cached" ELSE IF promise1 /= 0 THEN "shared" ELSE "issued"
        id == IF kind = "issued" THEN Len(fetches) + 1
              ELSE IF kind = "shared" THEN promise1 ELSE 0
    IN  /\ kind = "issued" => Len(fetches) < MaxFetches
        /\ modelCacheToken' = c
        /\ modelCache' = cache1
        /\ modelCacheTime' = time1
        /\ modelCachePromise' = IF kind = "issued" THEN id ELSE promise1
        /\ fetches' =
             CASE kind = "issued" ->
                    Append(fetches, [cred |-> c, status |-> "pending", shared |-> FALSE])
               [] kind = "shared" ->
                    [fetches EXCEPT ![promise1].shared = TRUE]
               [] OTHER -> fetches
        /\ lastCallCred' = c
        /\ sinceInvalidate' = FALSE
        /\ last' = [NoOp("fetchModels") EXCEPT
                      !.cred = c, !.force = force, !.kind = kind, !.fetch = id,
                      !.list = IF hit THEN cache1 ELSE NoList,
                      !.prevCred = lastCallCred,
                      !.tokenEq = ~TokenChanged(c),
                      !.slotBefore = modelCachePromise,
                      !.cacheBefore = modelCache,
                      !.timeBefore = modelCacheTime,
                      !.age = now - modelCacheTime,
                      !.inFlightSame = InFlight(c),
                      !.afterInvalidate = sinceInvalidate]
        /\ UNCHANGED <<now, ticks, chatVars, decVars, pureVars>>

\* The models request of fetch i answers 2xx: the rest of the async body runs
\* (lines 107-173), then its finally block (line 175).
FetchSucceed(i) ==
    /\ Pending(i)
    /\ fetches' = [fetches EXCEPT ![i].status = "fulfilled"]
    /\ modelCache' = ListOf(i)
    /\ modelCacheTime' = now
    /\ modelCachePromise' = PromiseAfterSettle
    /\ last' = [NoOp("succeed") EXCEPT
                  !.fetch = i, !.cred = fetches[i].cred,
                  !.slotBefore = modelCachePromise,
                  !.cacheBefore = modelCache, !.timeBefore = modelCacheTime,
                  !.shared = fetches[i].shared]
    /\ UNCHANGED <<modelCacheToken, now, ticks, lastCallCred, sinceInvalidate, chatVars, decVars, pureVars>>

\* The models request of fetch i fails (network error, or !response.ok: lines
\* 103-105): the throw skips the cache writes and runs the finally block.
FetchFail(i) ==
    /\ Pending(i)
    /\ fetches' = [fetches EXCEPT ![i].status = "rejected"]
    /\ modelCachePromise' = PromiseAfterSettle
    /\ last' = [NoOp("fail") EXCEPT
                  !.fetch = i, !.cred = fetches[i].cred,
                  !.slotBefore = modelCachePromise,
                  !.cacheBefore = modelCache, !.timeBefore = modelCacheTime,
                  !.shared = fetches[i].shared]
    /\ UNCHANGED <<modelCache, modelCacheTime, modelCacheToken, now, ticks,
                   lastCallCred, sinceInvalidate, chatVars, decVars, pureVars>>

InvalidateModelsCache ==
    /\ modelCache' = InvalidatedCache
    /\ modelCacheTime' = InvalidatedTime
    /\ modelCacheToken' = InvalidatedToken
    /\ modelCachePromise' = InvalidatedPromise
    /\ sinceInvalidate' = TRUE
    /\ last' = [NoOp("invalidate") EXCEPT
                  !.slotBefore = modelCachePromise,
                  !.cacheBefore = modelCache, !.timeBefore = modelCacheTime]
    /\ UNCHANGED <<fetches, now, ticks, lastCallCred, chatVars, decVars, pureVars>>

\* Time passes between two events of the page.
Tick(d) ==
    /\ ticks < MaxTicks
    /\ now' = now + d
    /\ ticks' = ticks + 1
    /\ last' = NoOp("tick")
    /\ UNCHANGED <<modelCache, modelCacheTime, modelCacheToken, modelCachePromise,
                   fetches, lastCallCred, sinceInvalidate, chatVars, decVars, pureVars>>

-----------------------------------------------------------------------------
(* Chat orchestration: the Chat component (sendMessage with the tool-call    *)
(* loop, handleSend, stopStreaming)                                          *)

\* Conversation keys: 0 is convKey ('_default'), k > 0 is the compare
\* conversation `compare_${Date.now()}` created by the k-th handleSend.
ConvKeys == 0..MaxSends
NoConv == [exists |-> FALSE, messages |-> <<>>]

UserText == "q"
SystemPrompts == {"", "You are a helpful assistant."}

\* A turn of a conversation. `turn` is not a field of the program's objects: it
\* names the sendMessage invocation that appended the turn (0 for user turns).
UserMsg == [role |-> "user", content |-> <<UserText>>, pending |-> FALSE,
            error |-> FALSE, turn |-> 0]
AssistantMsg(o) == [role |-> "assistant", content |-> <<>>, pending |-> TRUE,
                    error |-> FALSE, turn |-> o]

\* An element of the outbound message array.
ApiMsg(role, content, calls, id) ==
    [role |-> role, content |-> content, tool_calls |-> calls, tool_call_id |-> id]
ApiOf(m) == ApiMsg(m.role, m.content, <<>>, "")

\* Tool calls a response may carry: the first n of call_1, call_2, ...; the
\* arguments of the even ones are not valid JSON.
CallIds == <<"call_1", "call_2", "call_3", "call_4">>
ToolCall(k) == [id |-> CallIds[k], arguments |-> IF k % 2 = 1 THEN "X" ELSE "bad"]
ToolCalls(n) == [k \in 1..n |-> ToolCall(k)]

\* A parse failure that leaves the raw arguments as the query.
QueryOfUnparsed(tc) == tc.arguments

\* lines 185-192: JSON.parse of the arguments, {} when it throws, then args.query || ''
QueryOf(tc) == IF tc.arguments = "bad" THEN "" ELSE tc.arguments

\* A progress line that is the raw query.
SearchLineRawQuery(q) == q

\* line 194: the progress line of a search
SearchLine(q) == IF q = "" THEN "Searching: \"\"\n" ELSE "Searching: \"X\"\n"

\* The text of a delta of request r of a turn.
RoundText == <<"text1", "text2", "text3", "text4", "text5", "text6", "text7">>

\* lines 206-211: the result of braveSearch, or the message made of its error
ToolResult(ok) == IF ok THEN "results" ELSE "Search failed"

\* A tool message that does not name its call.
ToolMessageWithoutId(tc, text) == ApiMsg("tool", <<text>>, <<>>, "")

\* lines 213-217: { role: 'tool', tool_call_id: tc.id, content: result }
ToolMessage(tc, text) == ApiMsg("tool", <<text>>, <<>>, tc.id)

\* An outbound array that keeps the system turns of the history.
AllMessagesUnfiltered(history) ==
    (IF systemPrompt /= "" THEN <<ApiMsg("system", <<systemPrompt>>, <<>>, "")>> ELSE <<>>)
    \o [i \in DOMAIN history |-> ApiOf(history[i])]
    \o <<ApiOf(UserMsg)>>

\* lines 115-120: sysMsg, the history without system turns, the user turn
AllMessages(history) ==
    (IF systemPrompt /= "" THEN <<ApiMsg("system", <<systemPrompt>>, <<>>, "")>> ELSE <<>>)
    \o [i \in DOMAIN SelectSeq(history, LAMBDA m : m.role /= "system") |->
          ApiOf(SelectSeq(history, LAMBDA m : m.role /= "system")[i])]
    \o <<ApiOf(UserMsg)>>

\* lines 129-138: the conversation gets the messages the render saw, the user turn
\* and the assistant placeholder
WithPlaceholder(convs, seen, key, o) ==
    [convs EXCEPT ![key] =
        [exists |-> TRUE, messages |-> seen[key].messages \o <<UserMsg, AssistantMsg(o)>>]]

\* An updater that replaces every turn.
EveryTurn(ms, i) == TRUE

\* The updater shared by lines 157-165, 195-203, 224-230 and 237-245: the trailing
\* turn of the conversation, if it is pending, is replaced.
TrailingPending(ms, i) == i = Len(ms) /\ ms[i].pending

WithContent(convs, key, c) ==
    LET ms == convs[key].messages
    IN  [convs EXCEPT ![key] =
            [exists |-> TRUE,
             messages |-> [i \in DOMAIN ms |->
                 IF TrailingPending(ms, i) THEN [ms[i] EXCEPT !.content = c] ELSE ms[i]]]]

\* A completion that leaves the turn pending.
CompletedStillPending(m) == m

\* line 227: { ...m, pending: false }
Completed(m) == [m EXCEPT !.pending = FALSE]

MarkComplete(convs, key) ==
    LET ms == convs[key].messages
    IN  [convs EXCEPT ![key] =
            [exists |-> TRUE,
             messages |-> [i \in DOMAIN ms |->
                 IF TrailingPending(ms, i) THEN Completed(ms[i]) ELSE ms[i]]]]

\* line 241: { ...m, content: `[Error: ${err.message}]`, pending: false, error: true }
Failed(m, msg) == [m EXCEPT !.content = <<"[Error: ", msg, "]">>, !.pending = FALSE,
                            !.error = TRUE]

\* A failure that marks the pending turn of every conversation.
MarkErrorEverywhere(convs, key, msg) ==
    [k \in DOMAIN convs |->
        [exists |-> convs[k].exists \/ k = key,
         messages |-> [i \in DOMAIN convs[k].messages |->
             IF TrailingPending(convs[k].messages, i)
             THEN Failed(convs[k].messages[i], msg) ELSE convs[k].messages[i]]]]

MarkError(convs, key, msg) ==
    LET ms == convs[key].messages
    IN  [convs EXCEPT ![key] =
            [exists |-> TRUE,
             messages |-> [i \in DOMAIN ms |->
                 IF TrailingPending(ms, i) THEN Failed(ms[i], msg) ELSE ms[i]]]]

\* What sendChatMessageStream may throw, other than an AbortError: a non-2xx
\* answer whose body carries error.message, one whose body carries none, a network
\* failure while the stream is read.
NoError == [kind |-> "none", message |-> ""]
UpstreamErrors ==
    {[kind |-> "status", message |-> "rate limited"],
     [kind |-> "status", message |-> ""],
     [kind |-> "network", message |-> "network error"]}

\* An error message that forgets what the upstream said.
ErrorMessageStatusOnly(e) == "API error: 500 Internal Server Error"

\* copilot.js lines 364-367: errData.error?.message || `API error: ...`; the
\* message of a failed read is that of the network error
ErrorMessage(e) ==
    IF e.kind = "status" /\ e.message = "" THEN "API error: 500 Internal Server Error"
    ELSE e.message

\* A catch that rethrows what is not an abort.
SettlesAsRethrown(pc) == IF pc = "failed" THEN "rejected" ELSE "resolved"

\* lines 231-249: the catch handles every error of the try block and the function
\* returns normally, so the promise of sendMessage resolves
SettlesAs(pc) == "resolved"

\* A loop that allows one more iteration.
LoopContinuesOneMore(iter) == iter <= 5

\* line 148: for (let iter = 0; iter < 5; iter++)
LoopContinues(iter) == iter < 5

Settled(pc) == pc \in {"done", "cancelled", "failed"}

\* handleSend's await (lines 270-276) is over once every sendMessage it started
\* has settled, or, by Promise.all, as soon as one of them has rejected.
BatchSettled(os, b) ==
    \/ \A p \in DOMAIN os : os[p].batch = b => Settled(os[p].pc)
    \/ \E p \in DOMAIN os : os[p].batch = b /\ os[p].outcome = "rejected"

\* lines 140-151: the state of a sendMessage invocation when it awaits its first
\* request. iter, accumulatedContent (acc), displayPrefix (prefix), apiMessages (api)
\* and toolCalls (calls) are its locals; rounds counts the requests it has issued,
\* invoked the braveSearch calls it has made, oks tells which of the searches that
\* have returned succeeded, err is the error it has caught, outcome how its promise
\* has settled, atRequest the turns of its conversation when it issued its first
\* request.
NewOrch(key, batch, api, seen) ==
    [key |-> key, batch |-> batch, pc |-> "streaming", iter |-> 0, acc |-> <<>>,
     prefix |-> <<>>, aborted |-> FALSE, calls |-> <<>>, idx |-> 0, rounds |-> 1,
     api |-> api, cancelledIn |-> "none", shown |-> <<>>, invoked |-> 0,
     oks |-> <<>>, err |-> NoError, outcome |-> "pending", atRequest |-> seen]

\* sendMessage has returned: its locals are gone; what it counted and last showed
\* is kept for the record.
Returned(r, pc, where) ==
    [r EXCEPT !.pc = pc, !.cancelledIn = where, !.acc = <<>>, !.prefix = <<>>,
              !.calls = <<>>, !.idx = 0, !.api = <<>>, !.oks = <<>>,
              !.outcome = SettlesAs(pc)]

\* The placeholder a sendMessage invocation appended, wherever it is now.
PlaceholdersOf(o) ==
    {m \in {conversations[orch[o].key].messages[i] :
                i \in DOMAIN conversations[orch[o].key].messages} : m.turn = o}

\* A sendMessage that issues its request before it appends its turns.
AtFirstRequestBeforeAppend(before, after) == before

\* lines 129-151: setConversations is called with the user turn and the placeholder
\* before sendChatMessageStream is called; the request is issued with the store as
\* it is after the append
AtFirstRequest(before, after) == after

\* handleSend (lines 251-281) up to its await, with the synchronous part of every
\* sendMessage it calls (lines 108-169).
HandleSend(compare) ==
    /\ input /= "" /\ ~streaming
    /\ sends < MaxSends
    /\ LET b == sends + 1
           o1 == Len(orch) + 1
           o2 == Len(orch) + 2
           c1 == WithPlaceholder(conversations, conversations, 0, o1)
           withCompare == [c1 EXCEPT ![b] = [exists |-> TRUE, messages |-> <<>>]]
           c2 == WithPlaceholder(withCompare, conversations, b, o2)
           r1 == NewOrch(0, b, AllMessages(conversations[0].messages),
                         AtFirstRequest(conversations, c1)[0].messages)
           r2 == NewOrch(b, b, AllMessages(conversations[b].messages),
                         AtFirstRequest(withCompare, c2)[b].messages)
       IN  /\ sends' = b
           /\ streaming' = TRUE
           /\ conversations' = IF compare THEN c2 ELSE c1
           /\ orch' = IF compare THEN orch \o <<r1, r2>> ELSE Append(orch, r1)
           /\ abortControllers' = abortControllers \cup (IF compare THEN {o1, o2} ELSE {o1})
    /\ UNCHANGED <<input, systemPrompt, cacheVars, decVars, pureVars>>

\* deleteConversation (lines 98-105), from the button of the sidebar, which is
\* enabled at all times: the record of the id is removed from the store.
DeleteConversation(k) ==
    /\ conversations[k].exists
    /\ conversations' = [conversations EXCEPT ![k] = NoConv]
    /\ UNCHANGED <<streaming, input, systemPrompt, abortControllers, orch, sends,
                   cacheVars, decVars, pureVars>>

\* The textarea's onChange (line 482); the textarea is disabled while streaming.
TypeInput ==
    /\ ~streaming /\ input = ""
    /\ input' = UserText
    /\ UNCHANGED <<conversations, streaming, systemPrompt, abortControllers, orch,
                   sends, cacheVars, decVars, pureVars>>

\* The finally of handleSend (lines 277-280) runs when the awaited sendMessage calls
\* have all settled; the catch of an abort also resets streaming (line 234).
InputAfter(os, o) == IF BatchSettled(os, os[o].batch) THEN "" ELSE input

\* A handleSend and a catch that leave the streaming flag as it is.
StreamingAfterKept(os, o) == streaming

StreamingAfter(os, o) ==
    IF BatchSettled(os, os[o].batch) \/ os[o].pc = "cancelled" THEN FALSE ELSE streaming

\* onChunk (lines 155-166): one text delta of the stream of o.
StreamDelta(o) ==
    /\ o \in DOMAIN orch /\ orch[o].pc = "streaming"
    /\ Len(orch[o].acc) < MaxDeltas
    /\ LET acc == Append(orch[o].acc, RoundText[orch[o].rounds])
       IN  /\ orch' = [orch EXCEPT ![o].acc = acc, ![o].shown = orch[o].prefix \o acc]
           /\ conversations' = WithContent(conversations, orch[o].key, orch[o].prefix \o acc)
    /\ UNCHANGED <<streaming, input, systemPrompt, abortControllers, sends, cacheVars, decVars, pureVars>>

\* A finally that leaves the controller in the registry.
UnregisteredNever(cs, o) == cs

\* lines 246-248: abortControllersRef.current.delete(controller)
Unregistered(cs, o) == cs \ {o}

\* lines 223-230 and 246-248: the loop is left, the turn is marked complete, the
\* controller is removed.
Finish(o, os) ==
    /\ orch' = [os EXCEPT ![o] = Returned(@, "done", "none")]
    /\ conversations' = MarkComplete(conversations, orch[o].key)
    /\ abortControllers' = Unregistered(abortControllers, o)
    /\ input' = InputAfter(orch', o)
    /\ streaming' = StreamingAfter(orch', o)

\* sendChatMessageStream is called with a signal that is already aborted: fetch
\* rejects with an AbortError, caught at lines 231-236.
CancelAtRequest(o, os, convs) ==
    /\ orch' = [os EXCEPT ![o] = Returned(@, "cancelled", "request")]
    /\ conversations' = convs
    /\ abortControllers' = Unregistered(abortControllers, o)
    /\ input' = InputAfter(orch', o)
    /\ streaming' = StreamingAfter(orch', o)

\* lines 184-208: the progress line of tool call k is shown and braveSearch is
\* called.
StartTool(o, os, k) ==
    LET prefix == Append(os[o].prefix, SearchLine(QueryOf(os[o].calls[k])))
    IN  /\ orch' = [os EXCEPT ![o].pc = "tool", ![o].idx = k, ![o].prefix = prefix,
                              ![o].shown = prefix, ![o].invoked = @ + 1]
        /\ conversations' = WithContent(conversations, orch[o].key, prefix)
        /\ UNCHANGED <<abortControllers, input, streaming>>

\* The stream of o ends (reader done) and sendChatMessageStream returns; calls are
\* the tool calls it returns. Lines 171-208, or 171 and 223-230 when there are none.
StreamEnd(o, n) ==
    /\ o \in DOMAIN orch /\ orch[o].pc = "streaming"
    /\ LET calls == ToolCalls(n)
           os == [orch EXCEPT ![o].calls = calls,
                              ![o].api = Append(@, ApiMsg("assistant", orch[o].acc,
                                                          calls, ""))]
       IN  IF n = 0 THEN Finish(o, orch) ELSE StartTool(o, os, 1)
    /\ UNCHANGED <<systemPrompt, sends, cacheVars, decVars, pureVars>>

\* braveSearch of the awaited tool call returns or throws (lines 205-221); then
\* the next tool call starts, or the next iteration of the loop, or the loop ends.
ToolReturn(o, ok) ==
    /\ o \in DOMAIN orch /\ orch[o].pc = "tool"
    /\ LET k == orch[o].idx
           pushed == [orch EXCEPT ![o].api =
                         Append(@, ToolMessage(orch[o].calls[k], ToolResult(ok))),
                                  ![o].oks = Append(@, ok)]
           next == [pushed EXCEPT ![o].prefix = Append(@, "\n"), ![o].iter = @ + 1,
                                  ![o].acc = <<>>, ![o].idx = 0]
       IN  IF k < Len(orch[o].calls) THEN StartTool(o, pushed, k + 1)
           ELSE IF ~LoopContinues(next[o].iter) THEN Finish(o, next)
           ELSE IF orch[o].aborted THEN CancelAtRequest(o, next, conversations)
           ELSE /\ orch' = [next EXCEPT ![o].pc = "streaming", ![o].rounds = @ + 1]
                /\ UNCHANGED <<conversations, abortControllers, input, streaming>>
    /\ UNCHANGED <<systemPrompt, sends, cacheVars, decVars, pureVars>>

\* The chat request of o answers non-2xx, or the network fails while the stream
\* is read: the error is caught at lines 231-248.
StreamFailWith(o, e) ==
    /\ o \in DOMAIN orch /\ orch[o].pc = "streaming"
    /\ orch' = [orch EXCEPT ![o] = Returned([@ EXCEPT !.err = e], "failed", "none")]
    /\ conversations' = MarkError(conversations, orch[o].key, ErrorMessage(e))
    /\ abortControllers' = Unregistered(abortControllers, o)
    /\ input' = InputAfter(orch', o)
    /\ streaming' = StreamingAfter(orch', o)
    /\ UNCHANGED <<systemPrompt, sends, cacheVars, decVars, pureVars>>

\* The network fails while the stream of o is read.
StreamFail(o) == StreamFailWith(o, [kind |-> "network", message |-> "network error"])

\* A stop that aborts one of the registered controllers only.
AbortsOneController(cs) == IF cs = {} THEN {} ELSE {CHOOSE o \in cs : \A p \in cs : o <= p}

\* line 284: abortControllersRef.current.forEach((c) => c.abort())
AbortedByStop(cs) == cs

\* stopStreaming (lines 283-287). Aborting a controller rejects the pending fetch
\* or read of its request with an AbortError; the catch of sendMessage (lines
\* 231-236) and then the finally of handleSend run before any other event. An
\* invocation that awaits braveSearch, which takes no signal, goes on.
StopStreaming ==
    /\ streaming
    /\ orch' = [o \in DOMAIN orch |->
                  IF o \notin AbortedByStop(abortControllers) THEN orch[o]
                  ELSE IF orch[o].pc = "streaming"
                       THEN Returned([orch[o] EXCEPT !.aborted = TRUE], "cancelled",
                                     "stream")
                       ELSE [orch[o] EXCEPT !.aborted = TRUE]]
    /\ abortControllers' = {}
    /\ streaming' = FALSE
    /\ input' = IF \E o \in AbortedByStop(abortControllers) :
                      orch[o].pc = "streaming" /\ BatchSettled(orch', orch[o].batch)
                THEN "" ELSE input
    /\ UNCHANGED <<conversations, systemPrompt, sends, cacheVars, decVars, pureVars>>

-----------------------------------------------------------------------------
(* Stream decoder: sendChatMessageStream, src/src/api/copilot.js lines 348-397 *)

\* The response body is a sequence of symbols: the line prefix "data: ", the
\* newline, the braces of a JSON object, one symbol per field of it, "[DONE]".
Prefix == "data: "
Newline == "\n"
DoneMark == "[DONE]"

Contents == {"none", "", "a", "b"}     \* delta.content: absent, '', or a text
Usages == 0..2                          \* usage: absent (0), or one of two objects
\* delta.tool_calls: absent (0), or one fragment: 1 and 2 are the arguments
\* substrings "a" and "b" of the call of index 0, 3 and 4 those of index 1
ToolFrags == 0..4
FragIndex(t) == (t - 1) \div 2
FragArgs(t) == IF t % 2 = 1 THEN "a" ELSE "b"

\* A frame; the payload of a frame that is not valid is cut before its closing
\* brace, so that it is not valid JSON.
Frame(c, u, v, t) == [content |-> c, usage |-> u, valid |-> v, tool |-> t]
Frames == {Frame(c, u, TRUE, 0) : c \in Contents, u \in Usages}

ContentSym(c) == CASE c = "" -> "content:" [] c = "a" -> "content:a" [] OTHER -> "content:b"
UsageSym(u) == IF u = 1 THEN "usage:1" ELSE "usage:2"
ToolSym(t) == CASE t = 1 -> "tool:0:a" [] t = 2 -> "tool:0:b" [] t = 3 -> "tool:1:a"
                [] OTHER -> "tool:1:b"
FieldSyms == {"content:", "content:a", "content:b", "usage:1", "usage:2",
              "tool:0:a", "tool:0:b", "tool:1:a", "tool:1:b"}

\* `data: <json>\n` of one frame, as the server writes it
EncodeFrame(f) ==
    <<Prefix, "{">>
    \o (IF f.content /= "none" THEN <<ContentSym(f.content)>> ELSE <<>>)
    \o (IF f.tool /= 0 THEN <<ToolSym(f.tool)>> ELSE <<>>)
    \o (IF f.usage /= 0 THEN <<UsageSym(f.usage)>> ELSE <<>>)
    \o (IF f.valid THEN <<"}">> ELSE <<>>)
    \o <<Newline>>

DoneLine == <<Prefix, DoneMark, Newline>>

RECURSIVE EncodeAll(_)
EncodeAll(fs) == IF fs = <<>> THEN <<>> ELSE EncodeFrame(Head(fs)) \o EncodeAll(Tail(fs))

\* line 378: chunk.split('\n')
RECURSIVE SplitLines(_)
SplitLines(s) ==
    IF \A i \in DOMAIN s : s[i] /= Newline THEN <<s>>
    ELSE LET i == CHOOSE k \in DOMAIN s :
                    s[k] = Newline /\ \A j \in 1..(k - 1) : s[j] /= Newline
         IN  <<SubSeq(s, 1, i - 1)>> \o SplitLines(SubSeq(s, i + 1, Len(s)))

\* line 381: line.startsWith('data: ')
StartsWithData(line) == Len(line) >= 1 /\ line[1] = Prefix

\* line 386: JSON.parse(payload) succeeds on a whole object only
ParsesAsJson(p) ==
    /\ Len(p) >= 2 /\ p[1] = "{" /\ p[Len(p)] = "}"
    /\ \A i \in 2..(Len(p) - 1) : p[i] \in FieldSyms

\* line 387: parsed.choices?.[0]?.delta?.content ("" stands for undefined as well)
DeltaOf(p) ==
    IF \E i \in DOMAIN p : p[i] = "content:a" THEN "a"
    ELSE IF \E i \in DOMAIN p : p[i] = "content:b" THEN "b" ELSE ""

\* line 389: parsed.usage (0 when absent)
UsageOf(p) ==
    IF \E i \in DOMAIN p : p[i] = "usage:1" THEN 1
    ELSE IF \E i \in DOMAIN p : p[i] = "usage:2" THEN 2 ELSE 0

\* lines 385-392: one data line that is not [DONE]
DecodeLine(p, st) ==
    IF ~ParsesAsJson(p) THEN st
    ELSE [sink |-> IF DeltaOf(p) /= "" THEN Append(st.sink, DeltaOf(p)) ELSE st.sink,
          usage |-> IF UsageOf(p) /= 0 THEN UsageOf(p) ELSE st.usage]

\* line 383: the for loop over these lines meets `data: [DONE]`
MeetsDone(lines) ==
    \E i \in DOMAIN lines : StartsWithData(lines[i]) /\ Tail(lines[i]) = <<DoneMark>>

\* lines 380-393: the lines of one chunk; [DONE] leaves the for loop
RECURSIVE DecodeLines(_, _)
DecodeLines(lines, st) ==
    IF lines = <<>> THEN st
    ELSE IF ~StartsWithData(Head(lines)) THEN DecodeLines(Tail(lines), st)
    ELSE IF Tail(Head(lines)) = <<DoneMark>> THEN st
    ELSE DecodeLines(Tail(lines), DecodeLine(Tail(Head(lines)), st))

\* lines 374-393: reader.read() delivers the next n symbols of the body as one chunk
ReadChunk(n) ==
    /\ dpc = "reading"
    /\ n \in 1..Len(wire)
    /\ LET st == DecodeLines(SplitLines(SubSeq(wire, 1, n)), [sink |-> sink, usage |-> usage])
       IN  /\ sink' = st.sink
           /\ usage' = st.usage
    /\ wire' = SubSeq(wire, n + 1, Len(wire))
    /\ cutLine' = (cutLine \/ (n < Len(wire) /\ wire[n] /= Newline))
    /\ doneSeen' = (doneSeen \/ MeetsDone(SplitLines(SubSeq(wire, 1, n))))
    /\ UNCHANGED <<frames, trailing, dpc, result, cacheVars, chatVars, pureVars>>

\* line 396: return { usage }. The caller reads toolCalls of it (part_002 line
\* 151), which is undefined: no tool call.
NoResult == [usage |-> 0, toolCalls |-> <<>>]
ReturnValue(u) == [usage |-> u, toolCalls |-> <<>>]

\* lines 375 and 396: reader.read() reports done, { usage } is returned
ReadDone ==
    /\ dpc = "reading"
    /\ wire = <<>>
    /\ dpc' = "returned"
    /\ result' = ReturnValue(usage)
    /\ UNCHANGED <<frames, trailing, wire, sink, usage, cutLine, doneSeen, cacheVars,
                   chatVars, pureVars>>

\* line 374: reader.read() rejects (network failure, abort)
ReadFail ==
    /\ dpc = "reading"
    /\ dpc' = "threw"
    /\ UNCHANGED <<frames, trailing, wire, sink, usage, cutLine, doneSeen, result,
                   cacheVars, chatVars, pureVars>>

RECURSIVE SeqsUpTo(_, _)
SeqsUpTo(S, n) ==
    IF n = 0 THEN {<<>>}
    ELSE SeqsUpTo(S, n - 1) \cup
         {Append(s, x) : s \in {t \in SeqsUpTo(S, n - 1) : Len(t) = n - 1}, x \in S}

\* The response body: the frames fs, `data: [DONE]`, the frames tr.
Body(fs, tr) == EncodeAll(fs) \o DoneLine \o EncodeAll(tr)

\* line 371: usage = {}; nothing of the body is read
DecoderAtBody(fs, tr) ==
    /\ frames = fs
    /\ trailing = tr
    /\ wire = Body(fs, tr)
    /\ sink = <<>>
    /\ usage = 0
    /\ dpc = "reading"
    /\ cutLine = FALSE
    /\ doneSeen = FALSE
    /\ result = NoResult

\* the body: up to MaxFrames valid frames, then [DONE]
DecoderAtStart(fs) == DecoderAtBody(fs, <<>>)

InitDecoder == \E fs \in SeqsUpTo(Frames, MaxFrames) : DecoderAtStart(fs)

\* Frames of every kind: text, text with usage, a frame that is not valid JSON,
\* tool-call fragments of two calls.
WireFrames ==
    {Frame("a", 0, TRUE, 0), Frame("b", 1, TRUE, 0), Frame("a", 2, FALSE, 0),
     Frame("none", 0, TRUE, 1), Frame("none", 0, TRUE, 2), Frame("none", 0, TRUE, 3)}

\* Frames a server may still send after `data: [DONE]`.
TrailFrames == {Frame("a", 0, TRUE, 0), Frame("b", 2, TRUE, 0)}

NextDecoder ==
    \/ \E n \in 1..Len(wire) : ReadChunk(n)
    \/ ReadDone
    \/ ReadFail

InitCache ==
    /\ modelCache = NoList
    /\ modelCacheTime = 0
    /\ modelCacheToken = Null
    /\ modelCachePromise = 0
    /\ fetches = <<>>
    /\ now = MODEL_CACHE_TTL
    /\ ticks = 0
    /\ lastCallCred = Null
    /\ sinceInvalidate = FALSE
    /\ last = NoOp("init")

NextCache ==
    \/ \E c \in Creds, force \in BOOLEAN : FetchModels(c, force)
    \/ \E i \in 1..MaxFetches : FetchSucceed(i)
    \/ \E i \in 1..MaxFetches : FetchFail(i)
    \/ InvalidateModelsCache
    \/ \E d \in TickSteps : Tick(d)

-----------------------------------------------------------------------------
(* Quota extraction: extractPremiumQuota of src/src/api/copilot.js *)

\* JavaScript values of the payloads: undefined, null, a number, or an object of
\* numeric fields, held as a set of <<name, value>> pairs.
Undefined == [kind |-> "undefined", n |-> 0, fields |-> {}]
JsNull == [kind |-> "null", n |-> 0, fields |-> {}]
Num(n) == [kind |-> "number", n |-> n, fields |-> {}]
Obj(fields) == [kind |-> "object", n |-> 0, fields |-> fields]

\* v is truthy: what `if (v)` accepts
Truthy(v) == v.kind = "object" \/ (v.kind = "number" /\ v.n /= 0)

\* typeof v === 'object' && name in v
HasField(v, name) == v.kind = "object" /\ \E f \in v.fields : f[1] = name

\* v[name], of an object that has the field
FieldOf(v, name) == (CHOOSE f \in v.fields : f[1] = name)[2]

\* An object of payload values, its entries in insertion order; or null, or
\* undefined (entries empty).
NoEntries(kind) == [kind |-> kind, entries |-> <<>>]
Entries(es) == [kind |-> "object", entries |-> es]

\* o[key]
Get(o, key) ==
    IF \E i \in DOMAIN o.entries : o.entries[i].key = key
    THEN o.entries[CHOOSE i \in DOMAIN o.entries : o.entries[i].key = key].value
    ELSE Undefined

\* a ?? b ?? ... over a list of values: the first that is not nullish
RECURSIVE FirstNonNullish(_)
FirstNonNullish(vs) ==
    IF vs = <<>> THEN JsNull
    ELSE IF Head(vs).kind \notin {"undefined", "null"} THEN Head(vs)
    ELSE FirstNonNullish(Tail(vs))

\* lines 215-217: Object.values(limitedQuotas).find(v => v && typeof v ===
\* 'object' && 'quota' in v)
FindQuotaObject(o) ==
    LET hits == {i \in DOMAIN o.entries : HasField(o.entries[i].value, "quota")}
    IN  IF hits = {} THEN Undefined
        ELSE o.entries[CHOOSE i \in hits : \A j \in hits : i <= j].value

\* The alias keys of limitedQuotas, in the order the code reads them (lines 211-214).
QuotaAliases == <<"chat_premium_requests", "premium_requests", "chat_premium", "premium">>

\* lines 209-225, and the whole function when called with null, null as at lines
\* 229-233: the `??` chain over the aliases, the generic object and null (lines
\* 210-219), returned when it is truthy; null otherwise
FromLimitedQuotas(o) ==
    LET quota == FirstNonNullish(
                     [i \in 1..Len(QuotaAliases) |-> Get(o, QuotaAliases[i])]
                     \o <<FindQuotaObject(o), JsNull>>)
    IN  IF o.kind = "object" /\ Truthy(quota) THEN quota ELSE JsNull

\* The token payload is null, or an object with its quotas.limited_user_quotas
\* (nested) and its own numeric fields (direct); the subscription payload is null,
\* or an object with its premium_chat_completions.
\* lines 207-271
extractPremiumQuota(limitedQuotas, copilotTokenData, subscription) ==
    IF Truthy(FromLimitedQuotas(limitedQuotas))
    THEN FromLimitedQuotas(limitedQuotas)
    ELSE IF /\ copilotTokenData.kind = "object"
            /\ copilotTokenData.nested.kind = "object"
            /\ Truthy(FromLimitedQuotas(copilotTokenData.nested))
    THEN FromLimitedQuotas(copilotTokenData.nested)
    ELSE IF /\ subscription.kind = "object"
            /\ Truthy(subscription.premium_chat_completions)
            /\ HasField(subscription.premium_chat_completions, "quota")
    THEN subscription.premium_chat_completions
    ELSE IF /\ copilotTokenData.kind = "object"
            /\ HasField(copilotTokenData.direct, "quota")
            /\ HasField(copilotTokenData.direct, "used")
    THEN LET direct == copilotTokenData.direct
         IN  Obj({<<"quota", FieldOf(direct, "quota")>>,
                  <<"used", FieldOf(direct, "used")>>,
                  <<"overage", IF HasField(direct, "overage")
                               THEN FieldOf(direct, "overage") ELSE 0>>,
                  <<"overage_usd", IF HasField(direct, "overage_usd")
                                   THEN FieldOf(direct, "overage_usd") ELSE 0>>})
    ELSE JsNull

\* A call of extractPremiumQuota returns.
ExtractPremiumQuota ==
    /\ ~quotaResult.called
    /\ quotaResult' =
           [called |-> TRUE,
            value |-> extractPremiumQuota(quotaArgs.limitedQuotas,
                                          quotaArgs.copilotTokenData,
                                          quotaArgs.subscription)]
    /\ UNCHANGED <<quotaArgs, rawModels, published, poller, cacheVars, chatVars, decVars>>

\* The payloads the extractor is called with. A key of limited quotas holds
\* nothing, null, the number 0, a quota record (its quota tells the keys apart) or
\* an object without a quota field.
ValueOfShape(key, shape) ==
    CASE shape = "null" -> JsNull
      [] shape = "zero" -> Num(0)
      [] shape = "record" ->
           Obj({<<"quota", CASE key = "chat_premium_requests" -> 300
                             [] key = "premium_requests" -> 301
                             [] key = "chat_premium" -> 302
                             [] key = "premium" -> 303
                             [] OTHER -> 304>>,
                <<"used", 120>>})
      [] shape = "noquota" -> Obj({<<"used", 5>>})
      [] OTHER -> Undefined

\* The object with the given keys, those of shape "undefined" left out.
QuotasOf(keys, shapes) ==
    LET kept == SelectSeq([i \in 1..Len(keys) |-> [key |-> keys[i], shape |-> shapes[i]]],
                          LAMBDA e : e.shape /= "undefined")
    IN  Entries([i \in 1..Len(kept) |->
                    [key |-> kept[i].key, value |-> ValueOfShape(kept[i].key, kept[i].shape)]])

LimitedQuotasInputs ==
    {NoEntries("undefined"), NoEntries("null")} \cup
    {QuotasOf(<<"chat", "chat_premium_requests", "premium_requests", "chat_premium",
                "premium">>, <<g, a, b, c, d>>) :
        g \in {"undefined", "zero", "record", "noquota"},
        a \in {"undefined", "null", "zero", "record", "noquota"},
        b \in {"undefined", "zero", "record"},
        c \in {"undefined", "record"},
        d \in {"undefined", "record"}}

TokenInputs ==
    {[kind |-> "null", nested |-> NoEntries("undefined"), direct |-> Obj({})]} \cup
    {[kind |-> "object", nested |-> n, direct |-> d] :
        n \in {NoEntries("undefined"),
               Entries(<<[key |-> "premium_requests",
                          value |-> Obj({<<"quota", 311>>, <<"used", 1>>})]>>),
               Entries(<<[key |-> "chat_premium_requests", value |-> Num(0)],
                         [key |-> "chat",
                          value |-> Obj({<<"quota", 314>>, <<"used", 2>>})]>>)},
        d \in {Obj({}), Obj({<<"quota", 330>>}), Obj({<<"quota", 330>>, <<"used", 3>>}),
               Obj({<<"quota", 330>>, <<"used", 3>>, <<"overage", 7>>,
                    <<"overage_usd", 2>>})}}

SubscriptionInputs ==
    {[kind |-> "null", premium_chat_completions |-> Undefined]} \cup
    {[kind |-> "object", premium_chat_completions |-> v] :
        v \in {Undefined, Obj({<<"quota", 320>>, <<"used", 4>>}), Obj({<<"used", 5>>})}}

NoQuotaArgs ==
    [limitedQuotas |-> NoEntries("undefined"),
     copilotTokenData |-> [kind |-> "null", nested |-> NoEntries("undefined"),
                           direct |-> Obj({})],
     subscription |-> [kind |-> "null", premium_chat_completions |-> Undefined]]

QuotaAtCall(args) ==
    /\ quotaArgs = args
    /\ quotaResult = [called |-> FALSE, value |-> JsNull]

-----------------------------------------------------------------------------
(* Catalog normalization: lines 109-173 of fetchModels *)

\* An optional field of a raw entry is <<>> when the API omits it, <<v>> otherwise.
\* Multipliers are in hundredths.
MODEL_META ==
    [id \in {"gpt-4o", "gpt-5.1", "claude-haiku-4.5"} |->
        CASE id = "gpt-4o" -> [tier |-> "standard", multiplier |-> 0]
          [] id = "gpt-5.1" -> [tier |-> "premium", multiplier |-> 100]
          [] OTHER -> [tier |-> "premium", multiplier |-> 33]]

\* a ?? b of two optional values
Coalesce(a, b) == IF a /= <<>> THEN a ELSE b

\* lines 134-142: the tier by the flags of the entry, then by the static table
FlagTier(model, meta) ==
    LET billingPremium == model.billingPremium
        policyPremium == Coalesce(model.policyPremium, model.modelPremium)
        isFreeForPro == model.freeForPro
    IN  IF billingPremium /= <<>>
        THEN (IF billingPremium[1] THEN "premium" ELSE "standard")
        ELSE IF policyPremium /= <<>>
        THEN (IF policyPremium[1] THEN "premium" ELSE "standard")
        ELSE IF isFreeForPro /= <<>>
        THEN (IF isFreeForPro[1] THEN "standard" ELSE "premium")
        ELSE IF meta /= <<>> THEN meta[1].tier ELSE "standard"

\* The tier, were the multiplier not looked at.
TierIgnoringMultiplier(model, meta, multiplier) == FlagTier(model, meta)

\* lines 131-143
TierOf(model, meta, multiplier) ==
    IF multiplier = <<0>> THEN "standard" ELSE FlagTier(model, meta)

\* lines 159-162: max_context_window_tokens || context_window || null
ContextWindowOf(model) ==
    IF model.maxContextWindowTokens /= <<>> /\ model.maxContextWindowTokens[1] /= 0
    THEN model.maxContextWindowTokens
    ELSE IF model.contextWindow /= <<>> /\ model.contextWindow[1] /= 0
    THEN model.contextWindow
    ELSE <<>>

\* lines 111-166: the display model of a raw entry, <<>> for null
Normalize(model) ==
    IF model.pickerEnabled /= <<TRUE>> THEN <<>>
    ELSE LET meta == IF model.id \in DOMAIN MODEL_META THEN <<MODEL_META[model.id]>>
                     ELSE <<>>
             multiplier == Coalesce(IF meta /= <<>> THEN <<meta[1].multiplier>> ELSE <<>>,
                                    model.billingMultiplier)
         IN  <<[raw |-> model,
                id |-> model.id,
                tier |-> TierOf(model, meta, multiplier),
                multiplier |-> multiplier,
                contextWindow |-> ContextWindowOf(model)]>>

\* A filter that keeps every entry that was normalized.
IsAvailableNonNull(m) == m /= <<>>

\* line 169: m != null && m.contextWindow != null && m.contextWindow > 0
IsAvailable(m) ==
    m /= <<>> /\ m[1].contextWindow /= <<>> /\ m[1].contextWindow[1] > 0

\* lines 111-169: map, then filter
AvailableModels(models) ==
    LET kept == SelectSeq([i \in 1..Len(models) |-> Normalize(models[i])], IsAvailable)
    IN  [i \in 1..Len(kept) |-> kept[i][1]]

\* lines 109-173: the response is normalized, written to _modelCache and returned
PublishModels ==
    /\ ~published.done
    /\ published' = [done |-> TRUE, models |-> AvailableModels(rawModels)]
    /\ UNCHANGED <<quotaArgs, quotaResult, rawModels, poller, cacheVars, chatVars, decVars>>

Flags == {<<>>, <<TRUE>>, <<FALSE>>}

RawEntry(id, mult, bp, pp, mp, free, picker, maxTokens, window) ==
    [id |-> id, billingMultiplier |-> mult, billingPremium |-> bp,
     policyPremium |-> pp, modelPremium |-> mp, freeForPro |-> free,
     pickerEnabled |-> picker, maxContextWindowTokens |-> maxTokens,
     contextWindow |-> window]

\* Selectable entries with every combination of the billing signals.
TierEntries ==
    {RawEntry(id, mult, bp, pp, mp, free, <<TRUE>>, <<8000>>, <<>>) :
        id \in {"gpt-4o", "gpt-5.1", "claude-haiku-4.5", "new-model"},
        mult \in {<<>>, <<0>>, <<100>>},
        bp \in Flags, pp \in Flags, mp \in Flags, free \in Flags}

\* Entries with every combination of the selection flag and the context window.
ViabilityEntries ==
    {RawEntry("gpt-4o", <<>>, <<>>, <<>>, <<>>, <<>>, picker, maxTokens, window) :
        picker \in Flags,
        maxTokens \in {<<>>, <<0>>, <<8000>>, <<-1>>},
        window \in {<<>>, <<4096>>}}

CatalogAtResponse(models) ==
    /\ rawModels = models
    /\ published = [done |-> FALSE, models |-> <<>>]

-----------------------------------------------------------------------------
(* Device flow: pollForToken of src/src/api/github.js *)

\* The promise of a call of pollForToken. pc: the timer of the next poll is set
\* ("waiting"), the request of a poll is in flight, or the promise has settled;
\* polls counts the requests issued, pollInterval is in seconds, aborted tells
\* whether the signal has fired and pollsAtAbort how many requests had been issued
\* when it did; value is what the promise settled with.
NoPoll ==
    [pc |-> "idle", polls |-> 0, pollInterval |-> 0, aborted |-> FALSE,
     pollsAtAbort |-> 0, value |-> ""]

\* lines 53-55 and 122: the first poll is scheduled
PollAtCall(interval) ==
    [pc |-> "waiting", polls |-> 0, pollInterval |-> interval, aborted |-> FALSE,
     pollsAtAbort |-> 0, value |-> ""]

\* What a poll request may end with: a body with access_token, one of the errors
\* of the device flow, another error, a body that is not JSON with a status that
\* is or is not ok, a network failure.
PollResponses ==
    {"access_token", "authorization_pending", "slow_down", "expired_token",
     "access_denied", "other_error", "html_not_ok", "html_ok", "network_error"}

\* poll (lines 57-62 and 64-76): the timer fires; an aborted signal rejects the
\* promise, otherwise the request is issued.
PollTimerFires ==
    /\ poller.pc = "waiting"
    /\ poller.aborted \/ poller.polls < MaxPolls
    /\ poller' = IF poller.aborted
                 THEN [poller EXCEPT !.pc = "rejected", !.value = "Polling cancelled"]
                 ELSE [poller EXCEPT !.pc = "inflight", !.polls = @ + 1]
    /\ UNCHANGED <<quotaArgs, quotaResult, rawModels, published, cacheVars, chatVars,
                   decVars>>

\* lines 78-119: the response of the request in flight is read.
PollResponse(r) ==
    /\ poller.pc = "inflight"
    /\ poller' =
         CASE r = "access_token" ->
                [poller EXCEPT !.pc = "resolved", !.value = "access_token"]
           [] r \in {"authorization_pending", "html_not_ok"} ->
                [poller EXCEPT !.pc = "waiting"]
           [] r = "slow_down" ->
                [poller EXCEPT !.pc = "waiting", !.pollInterval = @ + 5]
           [] OTHER -> [poller EXCEPT !.pc = "rejected", !.value = r]
    /\ UNCHANGED <<quotaArgs, quotaResult, rawModels, published, cacheVars, chatVars,
                   decVars>>

\* The signal passed to pollForToken fires (part_004: cancelDeviceFlow, lines
\* 80-85, or the unmount of the component, lines 23-25).
AbortPolling ==
    /\ poller.pc \in {"waiting", "inflight"} /\ ~poller.aborted
    /\ poller' = [poller EXCEPT !.aborted = TRUE, !.pollsAtAbort = poller.polls]
    /\ UNCHANGED <<quotaArgs, quotaResult, rawModels, published, cacheVars, chatVars,
                   decVars>>

-----------------------------------------------------------------------------
(* Specifications *)

PureAtLoad == QuotaAtCall(NoQuotaArgs) /\ CatalogAtResponse(<<>>) /\ poller = NoPoll

ChatAtLoad(prompt) ==
    /\ conversations = [k \in ConvKeys |-> NoConv]
    /\ streaming = FALSE
    /\ input = ""
    /\ systemPrompt = prompt
    /\ abortControllers = {}
    /\ orch = <<>>
    /\ sends = 0

\* lines 39-57: the conversations are restored from localStorage, and a restored
\* conversation may hold a system turn; the rest of the state is as at load.
InitStored ==
    /\ InitCache /\ DecoderAtStart(<<>>) /\ PureAtLoad
    /\ conversations =
          [k \in ConvKeys |->
              IF k = 0
              THEN [exists |-> TRUE,
                    messages |->
                      <<[role |-> "system", content |-> <<"stored prompt">>,
                         pending |-> FALSE, error |-> FALSE, turn |-> 0],
                        UserMsg,
                        [role |-> "assistant", content |-> <<"stored answer">>,
                         pending |-> FALSE, error |-> FALSE, turn |-> 0]>>]
              ELSE NoConv]
    /\ streaming = FALSE
    /\ input = ""
    /\ systemPrompt \in SystemPrompts
    /\ abortControllers = {}
    /\ orch = <<>>
    /\ sends = 0

InitCacheOnly == InitCache /\ ChatAtLoad("") /\ DecoderAtStart(<<>>) /\ PureAtLoad
InitSession ==
    /\ InitCache /\ ChatAtLoad("You are a helpful assistant.") /\ DecoderAtStart(<<>>)
    /\ PureAtLoad
InitStream == InitCache /\ ChatAtLoad("") /\ InitDecoder /\ PureAtLoad
InitQuota ==
    /\ InitCache /\ ChatAtLoad("") /\ DecoderAtStart(<<>>) /\ CatalogAtResponse(<<>>)
    /\ poller = NoPoll
    /\ \E l \in LimitedQuotasInputs, t \in TokenInputs, s \in SubscriptionInputs :
           QuotaAtCall([limitedQuotas |-> l, copilotTokenData |-> t, subscription |-> s])
InitTier ==
    /\ InitCache /\ ChatAtLoad("") /\ DecoderAtStart(<<>>) /\ QuotaAtCall(NoQuotaArgs)
    /\ poller = NoPoll
    /\ \E e \in TierEntries : CatalogAtResponse(<<e>>)
InitCatalog ==
    /\ InitCache /\ ChatAtLoad("") /\ DecoderAtStart(<<>>) /\ QuotaAtCall(NoQuotaArgs)
    /\ poller = NoPoll
    /\ \E ms \in SeqsUpTo(ViabilityEntries, MaxEntries) : CatalogAtResponse(ms)
InitPoll ==
    /\ InitCache /\ ChatAtLoad("") /\ DecoderAtStart(<<>>)
    /\ QuotaAtCall(NoQuotaArgs) /\ CatalogAtResponse(<<>>)
    /\ \E interval \in {5, 10} : poller = PollAtCall(interval)
InitFrames ==
    /\ PureAtLoad
    /\ InitCache /\ ChatAtLoad("")
    /\ \E fs \in SeqsUpTo(WireFrames, MaxFrames) : DecoderAtStart(fs)
InitTrailing ==
    /\ PureAtLoad
    /\ InitCache /\ ChatAtLoad("")
    /\ \E fs \in SeqsUpTo(TrailFrames, MaxFrames), f \in TrailFrames :
           DecoderAtBody(fs, <<f>>)

\* A session: single and compare sends, stops, failures. At most MaxSends + 1
\* sendMessage invocations; a turn's first response may carry one tool call.
NextChat ==
    \/ TypeInput
    \/ \E compare \in BOOLEAN :
          Len(orch) + (IF compare THEN 2 ELSE 1) <= MaxSends + 1 /\ HandleSend(compare)
    \/ \E o \in DOMAIN orch : StreamDelta(o)
    \/ \E o \in DOMAIN orch, n \in 0..1 :
          (n > 0 => orch[o].iter = 0) /\ StreamEnd(o, n)
    \/ \E o \in DOMAIN orch : ToolReturn(o, TRUE)
    \/ \E o \in DOMAIN orch : StreamFail(o)
    \/ StopStreaming

\* One turn in single mode, the model free to ask for tool calls in every
\* response; the searches succeed.
NextLoop ==
    \/ TypeInput
    \/ sends = 0 /\ HandleSend(FALSE)
    \/ \E o \in DOMAIN orch : StreamDelta(o)
    \/ \E o \in DOMAIN orch, n \in 0..MaxToolCalls : StreamEnd(o, n)
    \/ \E o \in DOMAIN orch : ToolReturn(o, TRUE)
    \/ \E o \in DOMAIN orch : StreamFail(o)
    \/ StopStreaming

\* Sends in single mode; the first response of a turn may carry several tool
\* calls; the user may stop at any moment and send again.
NextStop ==
    \/ TypeInput
    \/ HandleSend(FALSE)
    \/ \E o \in DOMAIN orch : StreamDelta(o)
    \/ \E o \in DOMAIN orch, n \in 0..MaxToolCalls :
          (n > 0 => orch[o].iter = 0) /\ StreamEnd(o, n)
    \/ \E o \in DOMAIN orch : ToolReturn(o, TRUE)
    \/ \E o \in DOMAIN orch : StreamFail(o)
    \/ StopStreaming

\* A session in which no response asks for a tool call, as with the decoder of
\* src/src/api/copilot.js, whose result carries no toolCalls.
NextPlain ==
    \/ TypeInput
    \/ \E compare \in BOOLEAN : HandleSend(compare)
    \/ \E o \in DOMAIN orch : StreamDelta(o)
    \/ \E o \in DOMAIN orch : StreamEnd(o, 0)
    \/ \E o \in DOMAIN orch : StreamFail(o)
    \/ StopStreaming

\* Sessions without tool calls in which a request may fail in each of the ways of
\* UpstreamErrors; at most MaxSends sendMessage invocations.
NextFail ==
    \/ TypeInput
    \/ \E compare \in BOOLEAN :
          Len(orch) + (IF compare THEN 2 ELSE 1) <= MaxSends /\ HandleSend(compare)
    \/ \E o \in DOMAIN orch : StreamDelta(o)
    \/ \E o \in DOMAIN orch : StreamEnd(o, 0)
    \/ \E o \in DOMAIN orch, e \in UpstreamErrors : StreamFailWith(o, e)
    \/ StopStreaming

\* One send, in single or compare mode; the first response of a turn may carry
\* tool calls, and a search may fail.
NextSearch ==
    \/ TypeInput
    \/ \E compare \in BOOLEAN : sends = 0 /\ HandleSend(compare)
    \/ \E o \in DOMAIN orch : StreamDelta(o)
    \/ \E o \in DOMAIN orch, n \in 0..MaxToolCalls :
          (n > 0 => orch[o].iter = 0) /\ StreamEnd(o, n)
    \/ \E o \in DOMAIN orch, ok \in BOOLEAN : ToolReturn(o, ok)
    \/ \E o \in DOMAIN orch : StreamFail(o)
    \/ StopStreaming

\* Sessions without tool calls in which the user may delete a conversation at any
\* moment.
NextDelete ==
    \/ TypeInput
    \/ \E compare \in BOOLEAN :
          Len(orch) + (IF compare THEN 2 ELSE 1) <= MaxSends /\ HandleSend(compare)
    \/ \E o \in DOMAIN orch : StreamDelta(o)
    \/ \E o \in DOMAIN orch : StreamEnd(o, 0)
    \/ \E o \in DOMAIN orch : StreamFail(o)
    \/ StopStreaming
    \/ \E k \in ConvKeys : DeleteConversation(k)

\* Every stream that was started ends, by its last chunk or by a failure, and
\* every search that was started returns or throws.
StreamsAndSearchesEnd ==
    \/ \E o \in DOMAIN orch, n \in 0..MaxToolCalls :
          (n > 0 => orch[o].iter = 0) /\ StreamEnd(o, n)
    \/ \E o \in DOMAIN orch, ok \in BOOLEAN : ToolReturn(o, ok)
    \/ \E o \in DOMAIN orch : StreamFail(o)

NextPoll ==
    \/ PollTimerFires
    \/ \E r \in PollResponses : PollResponse(r)
    \/ AbortPolling

SpecCache == InitCacheOnly /\ [][NextCache]_vars
SpecChat == InitSession /\ [][NextChat]_vars
SpecLoop == InitSession /\ [][NextLoop]_vars
SpecStop == InitSession /\ [][NextStop]_vars
SpecPlain == InitSession /\ [][NextPlain]_vars
SpecFail == InitSession /\ [][NextFail]_vars
SpecSearch == InitSession /\ [][NextSearch]_vars
SpecDelete == InitSession /\ [][NextDelete]_vars
SpecLive == InitSession /\ [][NextSearch]_vars /\ WF_vars(StreamsAndSearchesEnd)
SpecPoll == InitPoll /\ [][NextPoll]_vars
SpecStored == InitStored /\ [][NextFail]_vars
SpecQuota == InitQuota /\ [][ExtractPremiumQuota]_vars
SpecTier == InitTier /\ [][PublishModels]_vars
SpecCatalog == InitCatalog /\ [][PublishModels]_vars
SpecDecoder == InitStream /\ [][NextDecoder]_vars
SpecFrames == InitFrames /\ [][NextDecoder]_vars
SpecTrailing == InitTrailing /\ [][NextDecoder]_vars

-----------------------------------------------------------------------------
(* Claims about the model catalog cache, checked under SpecCache *)

\* C3: at most one network fetch of the models endpoint is outstanding per
\* credential, in every reachable state.
AtMostOneFetchPerCredential ==
    \A c \in Creds : Cardinality(InFlight(c)) <= 1

\* C4: a fetchModels call made while a fetch for the same credential is in flight
\* issues no request and receives the promise of that fetch, forceRefresh or not.
CallDuringFetchSharesIt ==
    (last.op = "fetchModels" /\ last.inFlightSame /= {}) =>
        (last.kind = "shared" /\ last.fetch \in last.inFlightSame)

\* C5: a list returned by fetchModels(X) comes from a request issued with X; a fetch
\* of an earlier credential neither fills the cache read under the new credential
\* nor clears the in-flight promise of the new credential.
ReturnedListIsOfCredential ==
    /\ (last.op = "fetchModels" /\ last.kind = "cached") => last.list.owner = last.cred
    /\ (last.op = "fetchModels" /\ last.kind = "shared") =>
           fetches[last.fetch].cred = last.cred
    /\ (modelCache /= NoList /\ modelCacheToken /= Null) =>
           modelCache.owner = modelCacheToken
    /\ (last.op \in {"succeed", "fail"} /\ last.slotBefore /= last.fetch) =>
           modelCachePromise = last.slotBefore

\* C6: when two consecutive fetchModels calls carry different credentials, the
\* second one issues a network request, whatever the cache holds.
CredentialChangeRefetches ==
    (last.op = "fetchModels" /\ last.prevCred /= Null /\ last.prevCred /= last.cred) =>
        last.kind = "issued"

\* Reached: the second call came with another credential, without forceRefresh,
\* while the cache filled under the first one had not expired.
CredentialChangeWitness ==
    /\ last.op = "fetchModels" /\ last.kind = "issued"
    /\ last.prevCred /= Null /\ last.prevCred /= last.cred
    /\ ~last.force /\ last.cacheBefore /= NoList /\ last.age < MODEL_CACHE_TTL

\* C7: with the credential equal to the cache key and the in-flight slot empty, a
\* call issues a request iff forceRefresh, or the cache is empty, or its age is at
\* least the TTL; otherwise it returns the cached list.
TtlDecidesRequest ==
    (last.op = "fetchModels" /\ last.tokenEq /\ last.slotBefore = 0) =>
        /\ (last.kind = "issued") <=>
               (last.force \/ last.cacheBefore = NoList \/ last.age >= MODEL_CACHE_TTL)
        /\ last.kind /= "issued" =>
               (last.kind = "cached" /\ last.list = last.cacheBefore /\ last.fetch = 0)

\* Reached: a call without forceRefresh finds the cache exactly one TTL old.
TtlBoundaryWitness ==
    /\ last.op = "fetchModels" /\ last.tokenEq /\ last.slotBefore = 0
    /\ ~last.force /\ last.cacheBefore /= NoList /\ last.age = MODEL_CACHE_TTL
    /\ last.kind = "issued"

\* C8: invalidateModelsCache clears entries, timestamp, credential and in-flight
\* promise, and the next fetchModels call issues a network request.
InvalidateForcesRefetch ==
    /\ last.op = "invalidate" =>
           /\ modelCache = NoList
           /\ modelCacheTime = 0
           /\ modelCacheToken = Null
           /\ modelCachePromise = 0
    /\ (last.op = "fetchModels" /\ last.afterInvalidate) => last.kind = "issued"

\* Reached: a fetch in flight at the invalidation completed afterwards and wrote the
\* cache; the next call, without forceRefresh, still issued a request.
InvalidateWitness ==
    /\ last.op = "fetchModels" /\ last.afterInvalidate /\ last.kind = "issued"
    /\ ~last.force /\ last.cacheBefore /= NoList /\ last.age < MODEL_CACHE_TTL

\* C9: a failed models request rejects the fetch its callers share, leaves entries
\* and timestamp as they were, clears the in-flight slot, and no later call is
\* attached to the settled fetch.
FailureLeavesCacheAlone ==
    /\ last.op = "fail" =>
           /\ fetches[last.fetch].status = "rejected"
           /\ modelCache = last.cacheBefore
           /\ modelCacheTime = last.timeBefore
           /\ modelCachePromise = 0
    /\ \A i \in DOMAIN fetches : fetches[i].status = "rejected" => modelCache.fetch /= i
    /\ (last.op = "fetchModels" /\ last.kind = "shared") => Pending(last.fetch)

\* Reached: a fetch shared by two callers failed while the cache held a list.
FailureWitness ==
    /\ last.op = "fail" /\ last.shared /\ last.cacheBefore /= NoList

-----------------------------------------------------------------------------
(* Claims about the chat orchestration *)

\* C1: after a cancellation while the stream of a turn was being read (some text
\* had arrived), the turn's assistant placeholder has pending = false,
\* error = false, and the content accumulated before the cancellation. (SpecChat)
CancelledTurnIsFinalized ==
    \A o \in DOMAIN orch :
        (orch[o].pc = "cancelled" /\ orch[o].cancelledIn = "stream"
            /\ orch[o].shown /= <<>>) =>
            \A m \in PlaceholdersOf(o) :
                ~m.pending /\ ~m.error /\ m.content = orch[o].shown

\* C21: a turn that met an error other than a cancellation (non-2xx answer,
\* network failure while reading) has its placeholder with error = true,
\* pending = false and the content `[Error: <message>]`, the message being the
\* upstream's when it sent one. (SpecFail)
FailedTurnIsMarked ==
    \A o \in DOMAIN orch :
        orch[o].pc = "failed" =>
            /\ PlaceholdersOf(o) /= {}
            /\ \A m \in PlaceholdersOf(o) :
                   /\ m.error /\ ~m.pending
                   /\ m.content = <<"[Error: ",
                                    IF orch[o].err.message /= "" THEN orch[o].err.message
                                    ELSE "API error: 500 Internal Server Error",
                                    "]">>

\* Reached: in compare mode one request was answered non-2xx with a message, after
\* some text had been shown, while the other turn completed.
FailedTurnWitness ==
    \E o \in DOMAIN orch, p \in DOMAIN orch :
        /\ o /= p /\ orch[o].batch = orch[p].batch
        /\ orch[o].pc = "failed" /\ orch[o].err.message = "rate limited"
        /\ orch[o].shown /= <<>>
        /\ orch[p].pc = "done"

\* The tool messages of an outbound array.
ToolMessagesOf(api) == SelectSeq(api, LAMBDA a : a.role = "tool")

\* The progress lines shown for the tool calls of the current response.
LinesOfRound(prefix) ==
    LET breaks == {i \in DOMAIN prefix : prefix[i] = "\n"}
        from == IF breaks = {} THEN 1
                ELSE (CHOOSE i \in breaks : \A j \in breaks : j <= i) + 1
    IN  SubSeq(prefix, from, Len(prefix))

LastRound(api) ==
    LET asks == {i \in DOMAIN api : api[i].role = "assistant" /\ api[i].tool_calls /= <<>>}
    IN  IF asks = {} THEN <<>>
        ELSE SubSeq(api, CHOOSE i \in asks : \A j \in asks : j <= i, Len(api))

\* The messages the tool results of calls 1..n of a response follow.
RoundOf(calls, n, round) ==
    /\ Len(round) = n + 1
    /\ round[1].role = "assistant" /\ round[1].tool_calls = calls
    /\ \A k \in 1..n : round[k + 1].role = "tool" /\ round[k + 1].tool_call_id = calls[k].id

NoRejection == \A o \in DOMAIN orch : orch[o].outcome /= "rejected"

\* handleSend does not clean up while a sendMessage it awaits runs unstopped, and
\* has cleaned up when all have settled.
CleanupAwaitsAll ==
    /\ (\E o \in DOMAIN orch : ~Settled(orch[o].pc) /\ ~orch[o].aborted) => streaming
    /\ (orch /= <<>> /\ \A o \in DOMAIN orch : Settled(orch[o].pc)) => ~streaming

\* The step that settles the last sendMessage of a handleSend runs its finally.
CleanupRuns ==
    \A o \in DOMAIN orch :
        (~Settled(orch[o].pc) /\ Settled(orch'[o].pc)
            /\ \A p \in DOMAIN orch' : orch'[p].batch = orch[o].batch => Settled(orch'[p].pc))
        => (input' = "" /\ ~streaming')

\* C25: no failure of the chat request, of the stream read or of a search leaves
\* sendMessage as a rejection: its promise always resolves, so handleSend (in
\* compare mode, its wait on both calls) sees none and reaches its cleanup when
\* all have settled. (SpecSearch)
ErrorsStayInOrchestrator ==
    [][NoRejection' /\ CleanupAwaitsAll' /\ CleanupRuns]_vars

\* Reached: in compare mode one turn failed on its request and the other completed
\* after a search; handleSend has cleaned up.
ErrorsStayWitness ==
    \E o \in DOMAIN orch, p \in DOMAIN orch :
        /\ o /= p /\ orch[o].batch = orch[p].batch
        /\ orch[o].pc = "failed" /\ orch[o].outcome = "resolved"
        /\ orch[p].pc = "done" /\ orch[p].invoked >= 1 /\ orch[p].outcome = "resolved"
        /\ ~streaming /\ input = ""

RecordOfLimited(o) ==
    LET aliases == {i \in 1..Len(QuotaAliases) : Get(o, QuotaAliases[i]).kind = "object"}
        generic == {i \in DOMAIN o.entries : HasField(o.entries[i].value, "quota")}
    IN  IF o.kind /= "object" THEN JsNull
        ELSE IF aliases /= {}
        THEN Get(o, QuotaAliases[CHOOSE i \in aliases : \A j \in aliases : i <= j])
        ELSE IF generic /= {}
        THEN o.entries[CHOOSE i \in generic : \A j \in generic : i <= j].value
        ELSE JsNull

\* C26: extractPremiumQuota returns the record of the first source that is
\* present, in the order: an alias key of limitedQuotas (the first present one), a
\* nested object of limitedQuotas with a quota field, the nested limited quotas of
\* the token payload, premium_chat_completions of the subscription, the quota and
\* used fields of the token payload; it returns null only when none is present.
\* A source counts as present when it holds an object. (SpecQuota)
FirstPresentSourceWins ==
    quotaResult.called =>
        LET v == quotaResult.value
            token == quotaArgs.copilotTokenData
            sub == quotaArgs.subscription
            limited == RecordOfLimited(quotaArgs.limitedQuotas)
            nested == IF token.kind = "object" THEN RecordOfLimited(token.nested)
                      ELSE JsNull
        IN  IF limited /= JsNull THEN v = limited
            ELSE IF nested /= JsNull THEN v = nested
            ELSE IF sub.kind = "object" /\ HasField(sub.premium_chat_completions, "quota")
            THEN v = sub.premium_chat_completions
            ELSE IF /\ token.kind = "object"
                    /\ HasField(token.direct, "quota") /\ HasField(token.direct, "used")
            THEN /\ HasField(v, "quota") /\ HasField(v, "used")
                 /\ FieldOf(v, "quota") = FieldOf(token.direct, "quota")
                 /\ FieldOf(v, "used") = FieldOf(token.direct, "used")
            ELSE v = JsNull

\* C27: every record extractPremiumQuota returns carries an overage field and an
\* overage-in-USD field (named overageUsd or overage_usd); for limited quotas
\* {chat_premium_requests: {quota: 300, used: 120}} the record is quota 300, used
\* 120, overage 0, overage in USD 0. (SpecQuota)
ExtractedRecordCarriesOverage ==
    (quotaResult.called /\ quotaResult.value /= JsNull) =>
        LET v == quotaResult.value
            usd == IF HasField(v, "overageUsd") THEN "overageUsd" ELSE "overage_usd"
        IN  /\ HasField(v, "overage") /\ HasField(v, usd)
            /\ (quotaArgs.limitedQuotas =
                    Entries(<<[key |-> "chat_premium_requests",
                               value |-> Obj({<<"quota", 300>>, <<"used", 120>>})]>>)
                => /\ FieldOf(v, "quota") = 300 /\ FieldOf(v, "used") = 120
                   /\ FieldOf(v, "overage") = 0 /\ FieldOf(v, usd) = 0)

\* The tiers the billing and policy flags of a raw entry give.
FlagTiers(e) ==
    {IF e.billingPremium[1] THEN "premium" ELSE "standard" : x \in {1} \cap {Len(e.billingPremium)}}
    \cup {IF e.policyPremium[1] THEN "premium" ELSE "standard" : x \in {1} \cap {Len(e.policyPremium)}}
    \cup {IF e.modelPremium[1] THEN "premium" ELSE "standard" : x \in {1} \cap {Len(e.modelPremium)}}
    \cup {IF e.freeForPro[1] THEN "standard" ELSE "premium" : x \in {1} \cap {Len(e.freeForPro)}}

WindowsOf(e) ==
    {e.maxContextWindowTokens[x] : x \in DOMAIN e.maxContextWindowTokens}
    \cup {e.contextWindow[x] : x \in DOMAIN e.contextWindow}

\* C29: every model of the list fetchModels returns and writes to the cache has a
\* positive context window, resolved from its raw entry, and was not marked
\* unavailable for selection; a raw entry marked unavailable, or with no positive
\* context window, is not in the list. (SpecCatalog)
PublishedModelsViable ==
    published.done =>
        /\ \A i \in DOMAIN published.models :
              LET m == published.models[i]
              IN  /\ m.raw.pickerEnabled /= <<FALSE>>
                  /\ m.contextWindow /= <<>> /\ m.contextWindow[1] > 0
                  /\ m.contextWindow[1] \in WindowsOf(m.raw)
                  /\ \E j \in DOMAIN rawModels : rawModels[j] = m.raw
        /\ \A j \in DOMAIN rawModels :
              (\/ rawModels[j].pickerEnabled = <<FALSE>>
               \/ \A w \in WindowsOf(rawModels[j]) : w <= 0)
              => \A i \in DOMAIN published.models :
                     published.models[i].raw /= rawModels[j]

\* Reached: of two raw entries, the one marked unavailable is dropped and the
\* other is published with the context window of its fallback field.
PublishedModelsWitness ==
    /\ published.done /\ Len(rawModels) = 2 /\ Len(published.models) = 1
    /\ rawModels[1].pickerEnabled = <<FALSE>>
    /\ rawModels[2].maxContextWindowTokens = <<0>>
    /\ published.models[1].contextWindow = <<4096>>

UpdatesTouchOnlyTrailingPending ==
    [][sends' = sends =>
          \A k \in ConvKeys :
              LET a == conversations[k].messages
                  b == conversations'[k].messages
              IN  conversations'[k] /= conversations[k] =>
                      /\ Len(b) = Len(a) /\ Len(a) > 0 /\ a[Len(a)].pending
                      /\ \A i \in 1..(Len(a) - 1) : b[i] = a[i]
                      /\ \E o \in DOMAIN orch : orch[o].key = k /\ orch'[o] /= orch[o]
                      /\ \A j \in ConvKeys \ {k} : conversations'[j] = conversations[j]]_vars

\* Reached: in compare mode one turn has failed and the other shows a progress
\* line; the user turn of each conversation is as it was sent.
UpdatesTouchWitness ==
    \E o \in DOMAIN orch, p \in DOMAIN orch :
        /\ o /= p /\ orch[o].batch = orch[p].batch
        /\ orch[o].pc = "failed" /\ orch[p].pc = "tool"
        /\ \E m \in PlaceholdersOf(o) : m.error
        /\ \E m \in PlaceholdersOf(p) : m.pending /\ m.content = <<"Searching: \"X\"\n">>
        /\ conversations[orch[o].key].messages[1] = UserMsg
        /\ conversations[orch[p].key].messages[1] = UserMsg

IsPrefix(a, b) == Len(a) <= Len(b) /\ SubSeq(b, 1, Len(a)) = a

FirstRequestArray ==
    \A o \in DOMAIN orch :
        (orch[o].pc = "streaming" /\ orch[o].iter = 0) =>
            LET api == orch[o].api
                prior == SubSeq(orch[o].atRequest, 1, Len(orch[o].atRequest) - 2)
                kept == SelectSeq(prior, LAMBDA m : m.role /= "system")
                sys == IF systemPrompt /= "" THEN 1 ELSE 0
            IN  /\ Len(api) = sys + Len(kept) + 1
                /\ sys = 1 => api[1].role = "system" /\ api[1].content = <<systemPrompt>>
                /\ \A i \in 1..Len(kept) :
                       api[sys + i].role = kept[i].role /\ api[sys + i].content = kept[i].content
                /\ api[Len(api)].role = "user" /\ api[Len(api)].content = <<UserText>>
                /\ \A i \in (sys + 1)..Len(api) : api[i].role /= "system"

\* Reached: with no system prompt set, the first request of the second turn of a
\* restored conversation carries its four turns that are not system turns and
\* the new user turn.
FirstRequestArrayWitness ==
    \E o \in DOMAIN orch :
        /\ orch[o].pc = "streaming" /\ orch[o].iter = 0 /\ systemPrompt = ""
        /\ Len(orch[o].atRequest) = 7 /\ orch[o].atRequest[1].role = "system"
        /\ Len(orch[o].api) = 5

DeletedStaysAbsent ==
    [][\A k \in ConvKeys :
          (~conversations[k].exists /\ conversations'[k].exists) => sends' = sends + 1]_vars

\* The registry holds only controllers of sendMessage invocations that have not
\* settled.
RegistryHoldsRunning ==
    abortControllers \subseteq {o \in DOMAIN orch : ~Settled(orch[o].pc)}

\* C37: the registry of controllers holds a controller only while its sendMessage
\* has not settled, so it is empty whenever none is running, however the turns
\* ended; and a stop leaves it empty. (SpecFail)
RegistryTracksOrchestrations ==
    [][/\ RegistryHoldsRunning'
       /\ (\E o \in DOMAIN orch : ~orch[o].aborted /\ orch'[o].aborted)
              => abortControllers' = {}]_vars

\* Reached: one turn has completed and a later one was stopped; the registry is
\* empty.
RegistryEmptyWitness ==
    /\ abortControllers = {}
    /\ \E o \in DOMAIN orch, p \in DOMAIN orch :
          orch[o].pc = "done" /\ orch[p].pc = "cancelled" /\ orch[p].aborted

\* The two sendMessage invocations of a compare-mode send.
ComparePairs ==
    {pr \in (DOMAIN orch) \X (DOMAIN orch) :
        pr[1] /= pr[2] /\ orch[pr[1]].batch = orch[pr[2]].batch}

\* C38: in compare mode, the step in which one of the two turns fails marks that
\* turn as an error in its own conversation and changes neither the other
\* sendMessage nor the other conversation; the other, while it streams unstopped,
\* keeps its controller, and when it completes its turn is not pending, has no
\* error and holds all the text it was sent.
\* (SpecFail)
CompareFailureIsolated ==
    [][\A pr \in ComparePairs :
          LET o == pr[1]
              p == pr[2]
          IN  /\ (orch[o].pc /= "failed" /\ orch'[o].pc = "failed") =>
                     /\ \E m \in PlaceholdersOf(o)' : m.error /\ ~m.pending
                     /\ orch'[p] = orch[p]
                     /\ conversations'[orch[p].key] = conversations[orch[p].key]
              /\ (orch'[o].pc = "failed" /\ orch'[p].pc = "streaming" /\ ~orch'[p].aborted) =>
                     p \in abortControllers'
              /\ (orch'[o].pc = "failed" /\ orch'[p].pc = "done") =>
                     \E m \in PlaceholdersOf(p)' :
                         ~m.pending /\ ~m.error /\ m.content = orch'[p].shown]_vars

\* Reached: the primary turn failed first, the compare turn then received a delta
\* and completed with it.
CompareFailureWitness ==
    \E pr \in ComparePairs :
        /\ orch[pr[1]].pc = "failed" /\ orch[pr[2]].pc = "done"
        /\ \E m \in PlaceholdersOf(pr[1]) : m.error /\ m.content[2] = "network error"
        /\ \E m \in PlaceholdersOf(pr[2]) : ~m.error /\ ~m.pending /\ m.content = <<"text1">>

\* C39: provided every started stream and search ends, the streaming flag set by
\* an accepted send is eventually false again, in single and in compare mode and
\* however the turns end. (SpecLive)
StreamingEventuallyResets == streaming ~> ~streaming

\* Reached: a single-mode turn that ran two searches has completed and the flag
\* is false again.
StreamingResetWitness ==
    /\ sends = 1 /\ ~streaming /\ Len(orch) = 1
    /\ orch[1].pc = "done" /\ orch[1].invoked = 2 /\ ~orch[1].aborted

\* C40: once the signal passed to pollForToken has fired, no further poll request
\* is issued and the promise does not resolve with an access token, also not when
\* a request was in flight and its response carries one: it settles by rejection.
\* (SpecPoll)
AbortedPollNeverResolves ==
    poller.aborted =>
        /\ poller.polls = poller.pollsAtAbort
        /\ poller.pc /= "resolved"

\* C2: a turn issues at most 5 streaming requests, whatever the model answers.
\* (SpecLoop)
RoundTripsBounded ==
    \A o \in DOMAIN orch : orch[o].rounds <= 5

\* Reached: every one of the 5 responses asked for tool calls, and the turn ended.
FiveToolRoundsWitness ==
    \E o \in DOMAIN orch :
        orch[o].rounds = 5 /\ orch[o].iter = 5 /\ orch[o].pc = "done"

\* Every turn that has ended has its placeholder cleared.
EndedTurnsCleared ==
    \A o \in DOMAIN orch :
        Settled(orch[o].pc) => \A m \in PlaceholdersOf(o) : ~m.pending

\* A turn that is not pending is never changed again.
ClearedTurnsStay ==
    \A key \in ConvKeys : \A i \in DOMAIN conversations[key].messages :
        ~conversations[key].messages[i].pending =>
            conversations'[key].messages[i] = conversations[key].messages[i]

\* C15: pending is cleared exactly once for every placeholder: when its turn has
\* ended (complete, cancelled or failed) it is not pending, and once it is not
\* pending neither the flag nor the final content or error changes again.
\* (SpecPlain)
PendingClearedOnce ==
    [][EndedTurnsCleared' /\ ClearedTurnsStay]_vars

\* C16: every conversation holds at most one assistant turn with pending = true,
\* in every reachable state. (SpecPlain)
AtMostOnePendingPerConversation ==
    \A key \in ConvKeys :
        Cardinality({i \in DOMAIN conversations[key].messages :
                        /\ conversations[key].messages[i].role = "assistant"
                        /\ conversations[key].messages[i].pending}) <= 1

-----------------------------------------------------------------------------
(* Claims about the stream decoder, checked under SpecDecoder *)

\* The texts of the frames' delta.content, in arrival order.
SentDeltas ==
    LET valid == SelectSeq(frames, LAMBDA f : f.valid /\ f.content \notin {"none", ""})
    IN  [i \in DOMAIN valid |-> valid[i].content]

\* The usage object of the last frame that carries one (0: none does).
SentUsage ==
    LET valid == SelectSeq(frames, LAMBDA f : f.valid /\ f.usage /= 0)
    IN  IF valid = <<>> THEN 0 ELSE valid[Len(valid)].usage

\* C10: for every sequence of valid frames, the deltas delivered to the sink
\* concatenate to the frames' delta.content values in arrival order, and the usage
\* returned is that of the last frame carrying one.
DecoderDeliversEveryFrame ==
    dpc = "returned" => (sink = SentDeltas /\ usage = SentUsage)

\* The same, for the streams whose chunks all end at a line end.
DecoderDeliversWholeLines ==
    (dpc = "returned" /\ ~cutLine) => (sink = SentDeltas /\ usage = SentUsage)

\* C11: once the decoder has met `data: [DONE]`, no later frame, in the same chunk
\* or in a later one, delivers a delta or changes the usage. (SpecTrailing)
DoneTerminatesDecoding ==
    [][doneSeen => (sink' = sink /\ usage' = usage)]_vars

\* What the decoder makes of the whole body read as one chunk.
DecodedAtOnce ==
    DecodeLines(SplitLines(Body(frames, trailing)), [sink |-> <<>>, usage |-> 0])

\* C12: every chunking of the same lines, also one that cuts a data line in two,
\* yields the deltas and the usage of the unsplit body. (SpecDecoder)
ChunkingIndependent ==
    dpc = "returned" => (sink = DecodedAtOnce.sink /\ usage = DecodedAtOnce.usage)

\* C13: a frame that is not valid JSON delivers nothing and does not end the
\* stream: the deltas delivered are those of the valid frames, in order, and the
\* usage is that of the last valid frame carrying one. (SpecFrames)
MalformedFramesSkipped ==
    (dpc = "returned" /\ \E i \in DOMAIN frames : ~frames[i].valid) =>
        (sink = SentDeltas /\ usage = SentUsage)

\* The same, for the streams whose chunks all end at a line end.
MalformedSkippedInWholeLines ==
    (dpc = "returned" /\ ~cutLine /\ \E i \in DOMAIN frames : ~frames[i].valid) =>
        (sink = SentDeltas /\ usage = SentUsage)

\* The fragments of the valid frames, merged by index: the arguments of a call are
\* the substrings of its fragments in arrival order.
MergedCalls ==
    LET frags == SelectSeq(frames, LAMBDA f : f.valid /\ f.tool /= 0)
        ofIndex(i) == SelectSeq(frags, LAMBDA f : FragIndex(f.tool) = i)
    IN  {<<i, [k \in DOMAIN ofIndex(i) |-> FragArgs(ofIndex(i)[k].tool)]>> :
            i \in {FragIndex(frags[k].tool) : k \in DOMAIN frags}}

\* The calls the decoder has returned, as index and arguments.
ReturnedCalls ==
    {<<result.toolCalls[k].index, result.toolCalls[k].arguments>> :
        k \in DOMAIN result.toolCalls}

\* C14: the toolCalls returned at stream end are the fragments merged by index,
\* the arguments concatenated in arrival order. (SpecFrames)
ToolFragmentsMerged ==
    dpc = "returned" => ReturnedCalls = MergedCalls

====
